---- MODULE Spec2Model ----
(***************************************************************************)
(* Model of pygama.lgdo.table.Table (src/src/pygama/lgdo/table.py).        *)
(*                                                                         *)
(* The heap holds Array objects (only their length matters here) and       *)
(* Table objects (size, loc and an insertion-ordered dict of columns).     *)
(* Columns are references: the same Array can be a column of two tables,   *)
(* and a Table can be a column of another Table.                           *)
(***************************************************************************)
EXTENDS Integers, Sequences, FiniteSets

\* ---- bounds of the model -------------------------------------------------
MaxLen == 2        \* array lengths and size arguments range over 0..MaxLen
MaxLoc == 2        \* push_row is explored while loc < MaxLoc

\* ---- program constants ---------------------------------------------------
None == -1         \* Python's None for `size` / `new_size` (never a length)
DefaultSize == 1024

\* ---- object universe -----------------------------------------------------
Arrays == {"A1", "A2"}
Tables == {"T1", "T2"}
Objects == Arrays \cup Tables
Names == <<"a", "b", "c">>
\* names under which the calls after construction store columns, per table
FieldNames == [t \in Tables |-> IF t = "T1" THEN {"a", "b"} ELSE {"b"}]
\* the table the driver fills (push_row / clear)
Filled == {"T1"}
Lens == 0..MaxLen
SizeArgs == Lens \cup {None}

\* a table may be stored as a column of another one only along this
\* relation (keeps the nesting acyclic: T2 can be a sub-table of T1)
CanNest(t, obj) == obj \in Arrays \/ (t = "T1" /\ obj = "T2")

VARIABLES
    alen,     \* alen[a]  : len() of Array a
    alive,    \* tables whose constructor has returned
    size,     \* size[t]  : Table.size (None after resize() of an empty table)
    loc,      \* loc[t]   : Table.loc
    cols,     \* cols[t]  : the dict of t, a sequence of [name, obj] in order
    nwarn,    \* number of log.warning records emitted by the latest call
    pushes,   \* history: push_row calls on t since construction / clear()
    ctor      \* history: arguments of the latest Table(...) call of Construct

NoCtor == [tbl |-> "none", size |-> None, col_dict |-> <<>>]

vars == <<alen, alive, size, loc, cols, nwarn, pushes, ctor>>

\* ---- dict helpers (Struct is a dict) --------------------------------------
Keys(cs) == {cs[i].name : i \in 1..Len(cs)}

Lookup(cs, name) == cs[CHOOSE i \in 1..Len(cs) : cs[i].name = name].obj

\* Struct.add_field: self[name] = obj (an existing key keeps its position)
DictSet(cs, name, obj) ==
    IF name \in Keys(cs)
    THEN [i \in 1..Len(cs) |->
             IF cs[i].name = name THEN [name |-> name, obj |-> obj] ELSE cs[i]]
    ELSE Append(cs, [name |-> name, obj |-> obj])

\* Struct.remove_field: del self[name] / self.pop(name)
DictDel(cs, name) == SelectSeq(cs, LAMBDA e : e.name # name)

\* ---- len() ----------------------------------------------------------------
\* len(obj): an Array's length, or Table.__len__ which returns self.size
\* (a Table whose size is None makes len() raise TypeError: result None)
LenOf(H, obj) == IF obj \in Arrays THEN H.alen[obj] ELSE H.size[obj]

\* Array.resize(new_size)
ArrayResize(H, a, n) == [H EXCEPT !.alen[a] = n]

\* ---- Table.resize ---------------------------------------------------------
\* H = [alen, size, cols, nwarn, raised]; the loop over self.items() from
\* index i on, with the current value ns of the local new_size.
RECURSIVE ResizeLoop(_, _, _, _, _)
ResizeLoop(H, t, i, ns, do_warn) ==
    IF H.raised THEN H
    ELSE IF i > Len(H.cols[t]) THEN [H EXCEPT !.size[t] = ns]
    ELSE LET obj == H.cols[t][i].obj
             l   == LenOf(H, obj)
         IN  IF l = None THEN [H EXCEPT !.raised = TRUE]
             ELSE IF ns = None THEN ResizeLoop(H, t, i + 1, l, do_warn)
             ELSE IF l # ns
             THEN LET H1 == IF do_warn THEN [H EXCEPT !.nwarn = @ + 1] ELSE H
                      H2 == IF obj \in Tables
                            THEN ResizeLoop(H1, obj, 1, ns, FALSE)
                            ELSE ArrayResize(H1, obj, ns)
                  IN  ResizeLoop(H2, t, i + 1, ns, do_warn)
             ELSE ResizeLoop(H, t, i + 1, ns, do_warn)

resize(H, t, new_size, do_warn) == ResizeLoop(H, t, 1, new_size, do_warn)

\* the heap as seen at the start of a call (no warning logged yet)
Heap == [alen |-> alen, size |-> size, cols |-> cols, nwarn |-> 0, raised |-> FALSE]

\* ---- Table.__init__ -------------------------------------------------------
\* variant: warns whether or not a size is given
InitDoWarnAlways(sz) == TRUE

\* do_warn = True if size is None else False
InitDoWarn(sz) == sz = None

\* variant: the size argument is ignored
InitSizeIgnored(sz) == DefaultSize

\* self.size = size if size is not None else 1024
InitSize(sz) == IF sz # None THEN sz ELSE DefaultSize

\* the heap after Table(size=sz, col_dict=cd) bound to the fresh object t
TableInit(H, t, sz, cd) ==
    LET H0 == [H EXCEPT !.cols[t] = cd]
    IN  IF Len(cd) > 0
        THEN resize(H0, t, sz, InitDoWarn(sz))
        ELSE [H0 EXCEPT !.size[t] = InitSize(sz)]

\* col_dict arguments: up to three entries named a, b, c in this order
ColDicts(objs) ==
    UNION {[1..k -> objs] : k \in 0..3}

MkDict(f) == [i \in DOMAIN f |-> [name |-> Names[i], obj |-> f[i]]]

Construct(t, sz, f) ==
    /\ t \notin alive
    /\ \A i \in DOMAIN f : f[i] \in Arrays \/ (f[i] \in alive /\ CanNest(t, f[i]))
    /\ LET H == TableInit(Heap, t, sz, MkDict(f))
       IN  /\ alen' = H.alen
           /\ nwarn' = H.nwarn
           /\ IF H.raised
              THEN /\ size' = [H.size EXCEPT ![t] = None]
                   /\ UNCHANGED <<alive, cols>>
              ELSE /\ size' = H.size
                   /\ alive' = alive \cup {t}
                   /\ cols' = H.cols
    /\ loc' = [loc EXCEPT ![t] = 0]
    /\ pushes' = [pushes EXCEPT ![t] = 0]
    /\ ctor' = [tbl |-> t, size |-> sz, col_dict |-> f]

\* ---- Table.resize as a call -----------------------------------------------
Resize(t, ns, do_warn) ==
    /\ t \in alive
    /\ LET H == resize(Heap, t, ns, do_warn)
       IN  /\ alen' = H.alen
           /\ size' = H.size
           /\ nwarn' = H.nwarn
    /\ UNCHANGED <<alive, loc, cols, pushes, ctor>>

\* ---- push_row / is_full / clear -------------------------------------------
\* variant: full only once loc has passed size
IsFullStrict(t) == loc[t] > size[t]

IsFull(t) == loc[t] >= size[t]

\* variant: the cursor skips a row
PushRowSkip(t) ==
    /\ t \in alive
    /\ loc[t] < MaxLoc
    /\ loc' = [loc EXCEPT ![t] = @ + 2]
    /\ pushes' = [pushes EXCEPT ![t] = @ + 1]
    /\ nwarn' = 0
    /\ UNCHANGED <<alen, alive, size, cols, ctor>>

PushRow(t) ==
    /\ t \in alive
    /\ loc[t] < MaxLoc
    /\ loc' = [loc EXCEPT ![t] = @ + 1]
    /\ pushes' = [pushes EXCEPT ![t] = @ + 1]
    /\ nwarn' = 0
    /\ UNCHANGED <<alen, alive, size, cols, ctor>>

Clear(t) ==
    /\ t \in alive
    /\ loc' = [loc EXCEPT ![t] = 0]
    /\ pushes' = [pushes EXCEPT ![t] = 0]
    /\ nwarn' = 0
    /\ UNCHANGED <<alen, alive, size, cols, ctor>>

\* ---- Table.add_field / add_column -----------------------------------------
\* H after self.add_field(name, obj, use_obj_size); raised when len(obj) fails
add_field(H, t, name, obj, use_obj_size) ==
    LET H0 == [H EXCEPT !.cols[t] = DictSet(@, name, obj)]
        l  == LenOf(H0, obj)
    IN  IF l = None THEN [H0 EXCEPT !.raised = TRUE]
        ELSE IF H0.size[t] # l
        THEN resize(H0, t, IF use_obj_size THEN l ELSE H0.size[t], FALSE)
        ELSE H0

add_column(H, t, name, obj, use_obj_size) == add_field(H, t, name, obj, use_obj_size)

AddField(t, name, obj, use_obj_size) ==
    /\ t \in alive
    /\ obj \in Arrays \/ (obj \in alive /\ CanNest(t, obj))
    /\ LET H == add_field(Heap, t, name, obj, use_obj_size)
       IN  /\ alen' = H.alen
           /\ size' = H.size
           /\ cols' = H.cols
           /\ nwarn' = H.nwarn
    /\ UNCHANGED <<alive, loc, pushes, ctor>>

\* ---- Table.remove_column --------------------------------------------------
RemoveColumn(t, name) ==
    /\ t \in alive
    /\ name \in Keys(cols[t])
    /\ cols' = [cols EXCEPT ![t] = DictDel(@, name)]
    /\ nwarn' = 0
    /\ UNCHANGED <<alen, alive, size, loc, pushes, ctor>>

\* ---- Table.join -----------------------------------------------------------
\* the loop `for name in cols: self.add_column(name, other_table[name])`
RECURSIVE JoinLoop(_, _, _, _, _)
JoinLoop(H, t, other, names, i) ==
    IF H.raised \/ i > Len(names) THEN H
    ELSE JoinLoop(add_column(H, t, names[i], Lookup(H.cols[other], names[i]), FALSE),
                  t, other, names, i + 1)

KeySeq(cs) == [i \in 1..Len(cs) |-> cs[i].name]

JoinWarn(t, other, do_warn) == IF loc[other] # loc[t] /\ do_warn THEN 1 ELSE 0

\* cols = None is modelled by names = KeySeq(cols[other])
Join(t, other, names, do_warn) ==
    /\ t \in alive /\ other \in alive /\ t # other
    /\ \A i \in 1..Len(names) :
          /\ names[i] \in Keys(cols[other])
          /\ CanNest(t, Lookup(cols[other], names[i]))
    /\ LET H == JoinLoop([Heap EXCEPT !.nwarn = JoinWarn(t, other, do_warn)],
                         t, other, names, 1)
       IN  /\ alen' = H.alen
           /\ size' = H.size
           /\ cols' = H.cols
           /\ nwarn' = H.nwarn
    /\ UNCHANGED <<alive, loc, pushes, ctor>>

JoinArgs(other) == {KeySeq(cols[other])} \cup {<<n>> : n \in Keys(cols[other])}

\* ---- specification of construction ----------------------------------------
InitCtor ==
    /\ alen \in [Arrays -> Lens]
    /\ alive = {}
    /\ size = [t \in Tables |-> None]
    /\ loc = [t \in Tables |-> 0]
    /\ cols = [t \in Tables |-> <<>>]
    /\ nwarn = 0
    /\ pushes = [t \in Tables |-> 0]
    /\ ctor = NoCtor

DoConstruct == \E t \in Tables, sz \in SizeArgs, f \in ColDicts(Objects) : Construct(t, sz, f)

NextCtor == DoConstruct

SpecCtor == InitCtor /\ [][NextCtor]_vars
\* ---- specification of the calls on constructed tables ---------------------
\* Init: T2 = Table(s2, d2) then T1 = Table(s1, d1), on arrays of any length
InitDicts == {f \in ColDicts(Arrays) : Len(f) <= 1}

Init ==
    \E al \in [Arrays -> Lens], s1 \in Lens, s2 \in Lens, f1 \in InitDicts, f2 \in {<<>>} :
       LET H0 == [alen |-> al, size |-> [t \in Tables |-> None],
                  cols |-> [t \in Tables |-> <<>>], nwarn |-> 0, raised |-> FALSE]
           H2 == TableInit(H0, "T2", s2, MkDict(f2))
           H1 == TableInit(H2, "T1", s1, MkDict(f1))
       IN  /\ alen = H1.alen
           /\ size = H1.size
           /\ cols = H1.cols
           /\ alive = Tables
           /\ loc = [t \in Tables |-> 0]
           /\ nwarn = 0
           /\ pushes = [t \in Tables |-> 0]
           /\ ctor = NoCtor

DoPushRow == \E t \in Filled : PushRow(t)

DoClear == \E t \in Filled : Clear(t)

DoAddField ==
    \E t \in Tables, obj \in Objects, u \in BOOLEAN :
       \E name \in FieldNames[t] : AddField(t, name, obj, u)

DoRemoveColumn == \E t \in Tables : \E name \in FieldNames[t] : RemoveColumn(t, name)

DoJoin ==
    \E t \in Tables, other \in Tables, w \in BOOLEAN :
       \E names \in JoinArgs(other) :
          /\ \A i \in 1..Len(names) : names[i] \in FieldNames[t]
          /\ Join(t, other, names, w)

\* resize(new_size) with the default do_warn=False
DoResize == \E t \in Tables, ns \in SizeArgs : Resize(t, ns, FALSE)

Next == DoResize \/ DoPushRow \/ DoClear \/ DoAddField \/ DoRemoveColumn \/ DoJoin

Spec == Init /\ [][Next]_vars
\* ---- properties -----------------------------------------------------------
Consistent(t) == \A i \in 1..Len(cols[t]) : LenOf(Heap, cols[t][i].obj) = size[t]

\* C1: every column of every table has length equal to the table's size,
\* after any sequence of resize, add_field, remove_column and join calls.
C1_EqualLength == \A t \in alive : Consistent(t)

\* C2: after Table(size, col_dict) returns, len(table) is size when size is
\* given, the (previous) length of the first column when size is None and
\* col_dict is not empty, and 1024 when size is None and col_dict is empty;
\* in the first two cases every supplied column ends with that length.
C2_RowCount ==
    [][alive' # alive =>
          LET t == ctor'.tbl  sz == ctor'.size  f == ctor'.col_dict
          IN  /\ sz # None => size'[t] = sz
              /\ (sz = None /\ Len(f) > 0) => size'[t] = LenOf(Heap, f[1])
              /\ (sz = None /\ Len(f) = 0) => size'[t] = 1024
              /\ \A i \in 1..Len(f) : LenOf(Heap', f[i]) = size'[t]]_vars

\* a table built from two arrays of different lengths and no size: both end
\* with the first one's length
C2_Witness ==
    /\ ctor.tbl \in alive /\ ctor.size = None /\ Len(ctor.col_dict) = 2
    /\ ctor.col_dict[1] \in Arrays /\ ctor.col_dict[2] \in Arrays
    /\ ctor.col_dict[1] # ctor.col_dict[2]
    /\ nwarn = 1
    /\ size[ctor.tbl] = 2
    /\ Consistent(ctor.tbl)

\* C3: loc is 0 after construction and after clear(), each push_row() adds
\* exactly 1, and is_full() is true exactly when loc >= size: after k
\* push_row() calls since the last clear(), is_full() holds iff k >= size.
C3_FillCursor ==
    \A t \in alive :
       /\ loc[t] = pushes[t]
       /\ size[t] # None => (IsFull(t) <=> pushes[t] >= size[t])

C3_Witness ==
    /\ "T1" \in alive /\ size["T1"] = 2
    /\ pushes["T1"] = 2 /\ IsFull("T1")

\* C4 (as stated): 0 <= loc <= size in every state reachable by push_row,
\* clear, resize, add_field and join.
C4_LocWithinSize == \A t \in alive : size[t] # None => (0 <= loc[t] /\ loc[t] <= size[t])

\* C4 (amended): loc is never negative; a push_row() made while is_full()
\* is false leaves loc <= size, and clear() puts loc back to 0.
C4_LocGuarded ==
    [][\A t \in Tables :
          /\ loc'[t] >= 0
          /\ (PushRow(t) /\ size[t] # None /\ ~IsFull(t)) => loc'[t] <= size'[t]
          /\ Clear(t) => loc'[t] = 0]_vars

C4_Witness ==
    /\ "T1" \in alive /\ size["T1"] = 2
    /\ loc["T1"] = 1 /\ ~IsFull("T1")
\* the columns t had before add_field(name, obj), other than obj itself and
\* other than the entry that name replaces
PreExisting(t, name, obj) ==
    {cols[t][i].obj : i \in {j \in 1..Len(cols[t]) : cols[t][j].name # name}} \ {obj}

AddFieldPost(t, name, obj, use_obj_size) ==
    LET l == LenOf(Heap, obj)
    IN  /\ (l # size[t] /\ use_obj_size) =>
              /\ size'[t] = l
              /\ LenOf(Heap', obj) = l
              /\ \A c \in PreExisting(t, name, obj) : LenOf(Heap', c) = l
        /\ (l # size[t] /\ ~use_obj_size) =>
              /\ size'[t] = size[t]
              /\ LenOf(Heap', obj) = size[t]
              /\ \A c \in PreExisting(t, name, obj) : LenOf(Heap', c) = LenOf(Heap, c)
        /\ l = size[t] => (alen' = alen /\ size' = size)
        /\ name \in Keys(cols'[t]) /\ Lookup(cols'[t], name) = obj
        /\ loc' = loc

\* C5: add_field(name, obj, use_obj_size) on a table whose size differs from
\* len(obj): with use_obj_size the size becomes len(obj), the pre-existing
\* columns are resized to it and obj keeps its length; without it the size
\* and the pre-existing columns' lengths are unchanged and obj is resized to
\* the size. With equal lengths nothing is resized. The table then holds obj
\* under name and loc is unchanged.
C5_AddField ==
    [][\A t \in Tables, obj \in Objects, u \in BOOLEAN : \A name \in FieldNames[t] :
          (/\ AddField(t, name, obj, u)
           /\ size[t] # None
           /\ ~add_field(Heap, t, name, obj, u).raised)
          => AddFieldPost(t, name, obj, u)]_vars

\* the lengths of the supplied columns before the constructor ran
FirstLen == LenOf(Heap, ctor'.col_dict[1])

Mismatched == {i \in 2..Len(ctor'.col_dict) : LenOf(Heap, ctor'.col_dict[i]) # FirstLen}

\* column i was already brought to the first column's length by the resize
\* of an earlier entry: the same object, or a sub-table that holds it
AlreadyResized(i) ==
    \E j \in Mismatched :
       /\ j < i
       /\ \/ ctor'.col_dict[j] = ctor'.col_dict[i]
          \/ /\ ctor'.col_dict[j] \in Tables
             /\ \E k \in 1..Len(cols[ctor'.col_dict[j]]) :
                   cols[ctor'.col_dict[j]][k].obj = ctor'.col_dict[i]

\* C6 (as stated): Table(size=None, col_dict) logs one warning for each
\* column whose length differs from the first column's, Table(size=n, ...)
\* logs none.
C6_WarnPerMismatch ==
    [][alive' # alive =>
          nwarn' = IF ctor'.size = None THEN Cardinality(Mismatched) ELSE 0]_vars

\* C6 (amended): Table(size=None, col_dict) logs one warning for each
\* column whose length differs from the first column's when the constructor
\* reaches it, that is for each mismatched column not already resized through
\* an earlier entry of col_dict; Table(size=n, ...) logs none.
C6_WarnPerResize ==
    [][alive' # alive =>
          nwarn' = IF ctor'.size = None
                   THEN Cardinality({i \in Mismatched : ~AlreadyResized(i)})
                   ELSE 0]_vars

\* the same array supplied under two names after a shorter first column:
\* one warning for two mismatched columns
C6_Witness ==
    /\ ctor.tbl \in alive /\ ctor.size = None /\ Len(ctor.col_dict) = 3
    /\ ctor.col_dict[2] = ctor.col_dict[3]
    /\ ctor.col_dict[1] # ctor.col_dict[2]
    /\ nwarn = 1
====
